---- MODULE Spec2Model ----
(***************************************************************************)
(* Model of the nvram_uio repository:                                      *)
(*   driver/nvram_uio.c                 the PCI probe of the UIO driver    *)
(*   userspace/userspace_access_test.c  the user-space access program      *)
(* Four specifications share the module:                                   *)
(*   SpecProbe  nvram_uio_pci_probe, statement by statement                *)
(*   Spec       main() of the user-space program, call by call             *)
(*   SpecLed    set_led called by the single owner of the LED register     *)
(*   SpecRace   two processes inside set_led on the same LED register      *)
(***************************************************************************)
EXTENDS Integers, Sequences, FiniteSets, TLC

VARIABLES
    \* ---- the hardware ----
    regs,               \* the CSR registers: register offset -> byte
    \* ---- set_led, single owner (SpecLed) ----
    led_calls,          \* the last set_led call, if any: <<[shift, state, before,
                        \* repeat]>>, before = the byte it read, repeat = the
                        \* call before it had the same arguments
    \* ---- set_led, two processes (SpecRace) ----
    rpc,                \* process -> "read" | "write" | "done"
    rarg,               \* process -> [shift, state]: the arguments of its call
    rled,               \* process -> the local variable led of set_led
    rinit,              \* the LED register byte before either call
    rorder,             \* the processes in the order of their writes
    \* ---- nvram_uio_pci_probe (SpecProbe) ----
    ppc,                \* the statement the probe is at
    dev_device,         \* dev->device, the PCI device id
    info_allocated,     \* the uio_info from kzalloc is allocated
    dev_enabled,        \* pci_enable_device succeeded, not yet disabled
    regions_held,       \* pci_request_regions succeeded, not yet released
    csr_remapped,       \* info->mem[0].internal_addr is a live ioremap
    info_mem_size,      \* info->mem[0].size
    uio_registered,     \* the UIO device is registered
    register_called,    \* uio_register_device was reached
    magic_numbers,      \* int magic_numbers[MAGIC_NUMBERS_PER_DEV + 1]
    magic_number,       \* the byte read from the magic register
    magic_number_ok,
    i,                  \* the index of the scan
    released,           \* the releases of the error path, in order
    probe_ret,          \* the value returned: "none" before the return
    \* ---- main() of userspace_access_test.c (Spec) ----
    pc,                 \* the call main is at
    registry,           \* the entries of /sys/class/uio, in readdir order
    hw_offset,          \* the offset of the CSR registers within their first page
    hw_size,            \* the size of the window that the driver registered
    dir_pos,            \* the index of entry, the entry readdir returned last
    scanned,            \* how many passes of the while body have run
    found_nvram_uio_device,
    context,            \* the nvram_uio_context
    fd_open,            \* the descriptor of the device file is open
    mmap_ret,           \* what mmap returned: 0 before the call
    mapped_pages,       \* the pages of the device that the process has mapped
    printed,            \* the register bytes printed
    led_step,           \* how many of main's set_led calls have run
    calls,              \* the system calls made, with their outcome, in order
    failed_step,        \* the call that failed: "none" while none did
    exit_status         \* "running", then the status of the process

ledvars  == <<led_calls>>
racevars == <<rpc, rarg, rled, rinit, rorder>>
kvars == <<ppc, dev_device, info_allocated, dev_enabled, regions_held, csr_remapped,
           info_mem_size, uio_registered, register_called, magic_numbers, magic_number,
           magic_number_ok, i, released, probe_ret>>
uvars == <<pc, registry, hw_offset, hw_size, dir_pos, scanned, found_nvram_uio_device,
           context, fd_open, mmap_ret, mapped_pages, printed, led_step, calls,
           failed_step, exit_status>>
vars == <<regs, led_calls, rpc, rarg, rled, rinit, rorder, kvars, uvars>>

(***************************************************************************)
(* umem.h: register offsets and LED encodings                              *)
(***************************************************************************)
MEMCTRLSTATUS_MAGIC == 0
MEMCTRLSTATUS_BATTERY == 4
MEMCTRLSTATUS_MEMORY == 7
MEMCTRLCMD_LEDCTRL == 8
MEMCTRLCMD_ERRCTRL == 12
LED_FAULT == 4
LED_OFF == 0
LED_ON == 1
LED_FLASH_7_0 == 2
LED_FLASH_3_5 == 3
LED_FLIP == 255

CsrRegisters == {MEMCTRLSTATUS_MAGIC, MEMCTRLSTATUS_MEMORY, MEMCTRLSTATUS_BATTERY,
                 MEMCTRLCMD_LEDCTRL, MEMCTRLCMD_ERRCTRL}
Byte == 0 .. 255
LedShifts == {0, 2, 4, 6}
LedStates == {LED_OFF, LED_ON, LED_FLASH_7_0, LED_FLASH_3_5}

(***************************************************************************)
(* C integer arithmetic.  The operands of &, |, ^, ~ and << are promoted   *)
(* to int; every result of set_led is stored into a uint8_t, which keeps   *)
(* the low 8 bits, and no operand exceeds 255 << 6, so the low IntBits     *)
(* bits of the int are exact here.                                         *)
(***************************************************************************)
IntBits == 16
IntMask == 2^IntBits - 1

RECURSIVE BitAndN(_, _, _)
BitAndN(a, b, n) ==
    IF n = 0 THEN 0
    ELSE (a % 2) * (b % 2) + 2 * BitAndN(a \div 2, b \div 2, n - 1)

RECURSIVE BitOrN(_, _, _)
BitOrN(a, b, n) ==
    IF n = 0 THEN 0
    ELSE (IF (a % 2) + (b % 2) > 0 THEN 1 ELSE 0) + 2 * BitOrN(a \div 2, b \div 2, n - 1)

RECURSIVE BitXorN(_, _, _)
BitXorN(a, b, n) ==
    IF n = 0 THEN 0
    ELSE (((a % 2) + (b % 2)) % 2) + 2 * BitXorN(a \div 2, b \div 2, n - 1)

BitAnd(a, b) == BitAndN(a, b, IntBits)
BitOr(a, b) == BitOrN(a, b, IntBits)
BitXor(a, b) == BitXorN(a, b, IntBits)
BitNot(a) == IntMask - a
Shl(a, n) == (a * 2^n) % (IntMask + 1)
ToU8(a) == a % 256

\* bit k of x
Bit(x, k) == (x \div 2^k) % 2

(***************************************************************************)
(* set_led: the byte stored to the LED register, from the byte read        *)
(***************************************************************************)
\* a set_led that ORs the state in without clearing the field first
SetLedValueNoClear(led, shift, state) ==
    IF state = LED_FLIP
    THEN ToU8(BitXor(led, Shl(1, shift)))
    ELSE ToU8(BitOr(led, Shl(state, shift)))

\* a set_led whose FLIP toggles the whole 2-bit field
SetLedValueFlipField(led, shift, state) ==
    IF state = LED_FLIP
    THEN ToU8(BitXor(led, Shl(3, shift)))
    ELSE LET cleared == ToU8(BitAnd(led, BitNot(Shl(3, shift))))
         IN  ToU8(BitOr(cleared, Shl(state, shift)))

SetLedValue(led, shift, state) ==
    IF state = LED_FLIP
    THEN ToU8(BitXor(led, Shl(1, shift)))
    ELSE LET cleared == ToU8(BitAnd(led, BitNot(Shl(3, shift))))
         IN  ToU8(BitOr(cleared, Shl(state, shift)))

(***************************************************************************)
(* The values of the variables of the parts that a specification leaves    *)
(* out                                                                     *)
(***************************************************************************)
\* the nvram_uio_context after memset (context, 0, ...)
ZeroContext ==
    [device_name |-> 0, csr_mmap_offset |-> 0, csr_mmap_size |-> 0, device_fd |-> 0,
     csr |-> 0, memctrlstatus_magic |-> 0, memctrlstatus_memory |-> 0,
     memctrlstatus_battery |-> 0, memctrlcmd_ledctrl |-> 0, memctrlcmd_errctrl |-> 0]

\* the user-space program is not running
UserIdle ==
    /\ pc = "idle" /\ registry = <<>> /\ hw_offset = 0 /\ hw_size = 0
    /\ dir_pos = 0 /\ scanned = 0 /\ found_nvram_uio_device = FALSE
    /\ context = ZeroContext /\ fd_open = FALSE /\ mmap_ret = 0
    /\ mapped_pages = {} /\ printed = <<>> /\ led_step = 0 /\ calls = <<>>
    /\ failed_step = "none" /\ exit_status = "running"

RaceIdle ==
    /\ rpc = <<>> /\ rarg = <<>> /\ rled = <<>> /\ rinit = 0 /\ rorder = <<>>

\* the driver is not probing
KernelIdle ==
    /\ ppc = "idle" /\ dev_device = 0
    /\ info_allocated = FALSE /\ dev_enabled = FALSE /\ regions_held = FALSE
    /\ csr_remapped = FALSE /\ info_mem_size = 0
    /\ uio_registered = FALSE /\ register_called = FALSE
    /\ magic_numbers = <<>> /\ magic_number = 0 /\ magic_number_ok = 0 /\ i = 0
    /\ released = <<>> /\ probe_ret = "none"

(***************************************************************************)
(* SpecLed: the single owner of the register calls set_led                 *)
(***************************************************************************)
InitLed ==
    /\ \E b \in Byte :
         regs = [r \in CsrRegisters |-> IF r = MEMCTRLCMD_LEDCTRL THEN b ELSE 0]
    /\ led_calls = <<>>
    /\ RaceIdle
    /\ KernelIdle
    /\ UserIdle

\* set_led (context, shift, state), with nothing else touching the register
SetLed(shift, state) ==
    LET led == regs[MEMCTRLCMD_LEDCTRL] IN
    /\ regs' = [regs EXCEPT ![MEMCTRLCMD_LEDCTRL] = SetLedValue(led, shift, state)]
    /\ led_calls' = <<[shift |-> shift, state |-> state, before |-> led,
                        repeat |-> /\ led_calls # <<>>
                                   /\ led_calls[1].shift = shift
                                   /\ led_calls[1].state = state]>>
    /\ UNCHANGED <<racevars, kvars, uvars>>

NextLed == \E shift \in LedShifts, state \in LedStates \cup {LED_FLIP} : SetLed(shift, state)

SpecLed == InitLed /\ [][NextLed]_vars

(***************************************************************************)
(* C3: for every initial LED register byte, every state in {OFF, ON,       *)
(* FLASH_SLOW, FLASH_FAST} and every shift in {0,2,4,6}, after             *)
(* set_led(shift, state) the bits [shift+1:shift] of the register equal    *)
(* state and the six other bits are those of the byte before the call.     *)
(***************************************************************************)
C3_SetLedField ==
    \A c \in {led_calls[n] : n \in DOMAIN led_calls} :
        c.state \in LedStates =>
            /\ Bit(regs[MEMCTRLCMD_LEDCTRL], c.shift) + 2 * Bit(regs[MEMCTRLCMD_LEDCTRL], c.shift + 1)
                 = c.state
            /\ \A k \in (0 .. 7) \ {c.shift, c.shift + 1} :
                 Bit(regs[MEMCTRLCMD_LEDCTRL], k) = Bit(c.before, k)

\* FLASH_FAST was written over a field that held FLASH_SLOW, other bits set
C3_Witness ==
    /\ led_calls # <<>>
    /\ led_calls[1].state = LED_FLASH_3_5 /\ led_calls[1].shift = 4
    /\ led_calls[1].before = 165
    /\ regs[MEMCTRLCMD_LEDCTRL] = 181

(***************************************************************************)
(* C4: for every initial LED register byte and every shift in {0,2,4,6},   *)
(* set_led(shift, FLIP) toggles the bit at position shift and leaves every *)
(* other bit, bit shift+1 included, unchanged; and a second                *)
(* set_led(shift, FLIP) right after it restores the byte that the first    *)
(* one read.                                                               *)
(***************************************************************************)
C4_FlipOneBit ==
    \A c \in {led_calls[n] : n \in DOMAIN led_calls} :
        c.state = LED_FLIP =>
            /\ Bit(regs[MEMCTRLCMD_LEDCTRL], c.shift) = 1 - Bit(c.before, c.shift)
            /\ \A k \in (0 .. 7) \ {c.shift} :
                 Bit(regs[MEMCTRLCMD_LEDCTRL], k) = Bit(c.before, k)

C4_FlipTwice ==
    (/\ led_calls # <<>> /\ led_calls' # <<>>
     /\ led_calls[1].state = LED_FLIP /\ led_calls'[1].state = LED_FLIP
     /\ led_calls'[1].shift = led_calls[1].shift)
        => regs'[MEMCTRLCMD_LEDCTRL] = led_calls[1].before

C4_Flip == [](C4_FlipOneBit) /\ [][C4_FlipTwice]_vars

\* a FLIP at shift 2 of a byte whose bit 3 is set, right after a FLIP at shift 2
C4_Witness ==
    /\ led_calls # <<>>
    /\ led_calls[1].repeat
    /\ led_calls[1].state = LED_FLIP /\ led_calls[1].shift = 2
    /\ led_calls[1].before = 172
    /\ regs[MEMCTRLCMD_LEDCTRL] = 168

(***************************************************************************)
(* SpecRace: two processes, each with the register window mapped, each in  *)
(* one call of set_led on its own indicator.  set_led reads the register   *)
(* into its local led, changes led, and stores led: two accesses of the    *)
(* volatile register, with no lock around them.                            *)
(***************************************************************************)
Procs == {1, 2}
\* 0x00, 0x5A, 0xA5, 0xFF: every 2-bit field takes each of its four values
RaceInitBytes == {\h00, \h5A, \hA5, \hFF}

InitRace ==
    /\ rinit \in RaceInitBytes
    /\ regs = [r \in CsrRegisters |-> IF r = MEMCTRLCMD_LEDCTRL THEN rinit ELSE 0]
    /\ rarg \in [Procs -> [shift : LedShifts, state : LedStates \cup {LED_FLIP}]]
    /\ rarg[1].shift < rarg[2].shift
    /\ rpc = [p \in Procs |-> "read"]
    /\ rled = [p \in Procs |-> 0]
    /\ rorder = <<>>
    /\ led_calls = <<>>
    /\ KernelIdle
    /\ UserIdle

\* led = *context->memctrlcmd_ledctrl;
RaceRead(p) ==
    /\ rpc[p] = "read"
    /\ rled' = [rled EXCEPT ![p] = regs[MEMCTRLCMD_LEDCTRL]]
    /\ rpc' = [rpc EXCEPT ![p] = "write"]
    /\ UNCHANGED <<regs, rarg, rinit, rorder, led_calls, kvars, uvars>>

\* a store that would re-read the live register, as an atomic update would
RaceStoreAtomic(p) == SetLedValue(regs[MEMCTRLCMD_LEDCTRL], rarg[p].shift, rarg[p].state)

\* the byte that process p stores: its local led after the if/else
RaceStore(p) == SetLedValue(rled[p], rarg[p].shift, rarg[p].state)

\* *context->memctrlcmd_ledctrl = led;
RaceWrite(p) ==
    /\ rpc[p] = "write"
    /\ regs' = [regs EXCEPT ![MEMCTRLCMD_LEDCTRL] = RaceStore(p)]
    /\ rpc' = [rpc EXCEPT ![p] = "done"]
    /\ rorder' = Append(rorder, p)
    /\ UNCHANGED <<rarg, rled, rinit, led_calls, kvars, uvars>>

NextRace == \E p \in Procs : RaceRead(p) \/ RaceWrite(p)

SpecRace == InitRace /\ [][NextRace]_vars

\* the register after the two calls run one after the other, p first
RaceSequential(p, q) ==
    SetLedValue(SetLedValue(rinit, rarg[p].shift, rarg[p].state), rarg[q].shift, rarg[q].state)

RaceBothDone == \A p \in Procs : rpc[p] = "done"

(***************************************************************************)
(* C8: set_led is an unsynchronized read-modify-write.  When two processes *)
(* call it on different indicator shifts and both read the register before *)
(* either stores, the update of the one that stores first is lost: if that *)
(* update changes the byte, the final register byte differs from the       *)
(* result of the two calls in either sequential order.                     *)
(***************************************************************************)
C8_LostUpdate ==
    (/\ RaceBothDone
     /\ \A p \in Procs : rled[p] = rinit
     /\ SetLedValue(rinit, rarg[rorder[1]].shift, rarg[rorder[1]].state) # rinit)
        => /\ regs[MEMCTRLCMD_LEDCTRL] # RaceSequential(1, 2)
           /\ regs[MEMCTRLCMD_LEDCTRL] # RaceSequential(2, 1)
           /\ regs[MEMCTRLCMD_LEDCTRL]
                = SetLedValue(rinit, rarg[rorder[2]].shift, rarg[rorder[2]].state)

\* process 1 set ON at shift 0, process 2 set FLASH at shift 4; the ON is lost
C8_Witness ==
    /\ RaceBothDone
    /\ rinit = 0
    /\ rarg[1] = [shift |-> 0, state |-> LED_ON]
    /\ rarg[2] = [shift |-> 4, state |-> LED_FLASH_7_0]
    /\ rorder = <<1, 2>>
    /\ regs[MEMCTRLCMD_LEDCTRL] = 32
    /\ RaceSequential(1, 2) = 33 /\ RaceSequential(2, 1) = 33

(***************************************************************************)
(* SpecProbe: nvram_uio_pci_probe, one action per statement.  Every kernel *)
(* call that can fail fails or succeeds; the magic register holds any      *)
(* byte; the device id is one of the three the switch names or another.    *)
(***************************************************************************)
MAGIC_NUMBERS_PER_DEV == 2
PAGE_SIZE == 4096
MagicSentinel == \h100
DeviceIds == {\h5415, \h5425, \h6155, \h5430}
\* pci_resource_len (dev, 0): none, less than a page, a page
CsrLens == {0, 256, PAGE_SIZE}

\* a switch whose first case forgets the sentinel
MagicTableNoSentinel(device) ==
    CASE device = \h5415 -> (0 :> \h59)
      [] device = \h5425 -> (0 :> \h5C) @@ (1 :> \h5E) @@ (2 :> MagicSentinel)
      [] device = \h6155 -> (0 :> \h99) @@ (1 :> MagicSentinel)
      [] OTHER -> (0 :> MagicSentinel)

\* the slots of magic_numbers that the switch assigns, by C index
MagicTable(device) ==
    CASE device = \h5415 -> (0 :> \h59) @@ (1 :> MagicSentinel)
      [] device = \h5425 -> (0 :> \h5C) @@ (1 :> \h5E) @@ (2 :> MagicSentinel)
      [] device = \h6155 -> (0 :> \h99) @@ (1 :> MagicSentinel)
      [] OTHER -> (0 :> MagicSentinel)

\* what a slot the switch did not assign may hold: the array is an
\* uninitialized local, so any int, the byte of the register included
Indeterminate == {0, MagicSentinel, regs[MEMCTRLSTATUS_MAGIC]}

InitProbe ==
    /\ \E b \in Byte :
         regs = [r \in CsrRegisters |-> IF r = MEMCTRLSTATUS_MAGIC THEN b ELSE 0]
    /\ dev_device \in DeviceIds
    /\ ppc = "kzalloc"
    /\ info_allocated = FALSE /\ dev_enabled = FALSE /\ regions_held = FALSE
    /\ csr_remapped = FALSE /\ info_mem_size = 0
    /\ uio_registered = FALSE /\ register_called = FALSE
    /\ magic_numbers = <<>> /\ magic_number = 0 /\ magic_number_ok = 0 /\ i = 0
    /\ released = <<>> /\ probe_ret = "none"
    /\ led_calls = <<>>
    /\ RaceIdle
    /\ UserIdle

NotKernel == <<regs, led_calls, racevars, uvars>>

\* info = kzalloc (...); if (info == NULL) return -ENOMEM;
ProbeKzalloc ==
    /\ ppc = "kzalloc"
    /\ \E ok \in BOOLEAN :
         IF ok
         THEN /\ info_allocated' = TRUE /\ ppc' = "enable" /\ UNCHANGED probe_ret
         ELSE /\ ppc' = "done" /\ probe_ret' = "ENOMEM" /\ UNCHANGED info_allocated
    /\ UNCHANGED <<dev_device, dev_enabled, regions_held, csr_remapped, info_mem_size,
                   uio_registered, register_called, magic_numbers, magic_number,
                   magic_number_ok, i, released, NotKernel>>

\* if (pci_enable_device(dev)) goto out_free;
ProbeEnable ==
    /\ ppc = "enable"
    /\ \E ok \in BOOLEAN :
         IF ok
         THEN /\ dev_enabled' = TRUE /\ ppc' = "dma"
         ELSE /\ ppc' = "out_free" /\ UNCHANGED dev_enabled
    /\ UNCHANGED <<dev_device, info_allocated, regions_held, csr_remapped, info_mem_size,
                   uio_registered, register_called, magic_numbers, magic_number,
                   magic_number_ok, i, released, probe_ret, NotKernel>>

\* if (pci_set_dma_mask(dev, DMA_BIT_MASK(64))) return -ENOMEM;
ProbeDmaMask ==
    /\ ppc = "dma"
    /\ \E ok \in BOOLEAN :
         IF ok
         THEN /\ ppc' = "request" /\ UNCHANGED probe_ret
         ELSE /\ ppc' = "done" /\ probe_ret' = "ENOMEM"
    /\ UNCHANGED <<dev_device, info_allocated, dev_enabled, regions_held, csr_remapped,
                   info_mem_size, uio_registered, register_called, magic_numbers,
                   magic_number, magic_number_ok, i, released, NotKernel>>

\* if (pci_request_regions (dev, DRIVER_NAME)) goto out_disable;
ProbeRequestRegions ==
    /\ ppc = "request"
    /\ \E ok \in BOOLEAN :
         IF ok
         THEN /\ regions_held' = TRUE /\ ppc' = "resource"
         ELSE /\ ppc' = "out_disable" /\ UNCHANGED regions_held
    /\ UNCHANGED <<dev_device, info_allocated, dev_enabled, csr_remapped, info_mem_size,
                   uio_registered, register_called, magic_numbers, magic_number,
                   magic_number_ok, i, released, probe_ret, NotKernel>>

\* csr_base = ...; csr_len = ...; if (!csr_base || !csr_len) goto out_release;
\* csr_len = page aligned; internal_addr = ioremap_nocache (csr_base, csr_len);
\* if (!internal_addr) goto out_release; info->mem[].size = csr_len;
ProbeIoremap ==
    /\ ppc = "resource"
    /\ \E base_ok \in BOOLEAN, csr_len \in CsrLens, ok \in BOOLEAN :
         IF ~base_ok \/ csr_len = 0
         THEN /\ ppc' = "out_release" /\ UNCHANGED <<csr_remapped, info_mem_size>>
         ELSE IF ~ok
         THEN /\ ppc' = "out_release" /\ UNCHANGED <<csr_remapped, info_mem_size>>
         ELSE /\ csr_remapped' = TRUE
              /\ info_mem_size' = ((csr_len + PAGE_SIZE - 1) \div PAGE_SIZE) * PAGE_SIZE
              /\ ppc' = "switch"
    /\ UNCHANGED <<dev_device, info_allocated, dev_enabled, regions_held,
                   uio_registered, register_called, magic_numbers, magic_number,
                   magic_number_ok, i, released, probe_ret, NotKernel>>

\* switch (dev->device) { ... }
ProbeSwitch ==
    /\ ppc = "switch"
    /\ \E rest \in [0 .. MAGIC_NUMBERS_PER_DEV -> Indeterminate] :
         magic_numbers' = [k \in 0 .. MAGIC_NUMBERS_PER_DEV |->
                             IF k \in DOMAIN MagicTable(dev_device)
                             THEN MagicTable(dev_device)[k] ELSE rest[k]]
    /\ ppc' = "readb"
    /\ UNCHANGED <<dev_device, info_allocated, dev_enabled, regions_held, csr_remapped,
                   info_mem_size, uio_registered, register_called, magic_number,
                   magic_number_ok, i, released, probe_ret, NotKernel>>

\* magic_number = readb(info->mem[0].internal_addr + MEMCTRLSTATUS_MAGIC); i = 0
ProbeReadMagic ==
    /\ ppc = "readb"
    /\ magic_number' = regs[MEMCTRLSTATUS_MAGIC]
    /\ i' = 0
    /\ ppc' = "scan"
    /\ UNCHANGED <<dev_device, info_allocated, dev_enabled, regions_held, csr_remapped,
                   info_mem_size, uio_registered, register_called, magic_numbers,
                   magic_number_ok, released, probe_ret, NotKernel>>

\* one test of the for condition and, when it holds, one pass of the body
ProbeScan ==
    /\ ppc = "scan"
    /\ IF i < MAGIC_NUMBERS_PER_DEV
       THEN IF magic_numbers[i] = magic_number
            THEN /\ magic_number_ok' = 1 /\ ppc' = "check" /\ UNCHANGED i
            ELSE IF magic_numbers[i] >= \h100
            THEN /\ ppc' = "check" /\ UNCHANGED <<i, magic_number_ok>>
            ELSE /\ i' = i + 1 /\ UNCHANGED <<ppc, magic_number_ok>>
       ELSE /\ ppc' = "check" /\ UNCHANGED <<i, magic_number_ok>>
    /\ UNCHANGED <<dev_device, info_allocated, dev_enabled, regions_held, csr_remapped,
                   info_mem_size, uio_registered, register_called, magic_numbers,
                   magic_number, released, probe_ret, NotKernel>>

\* if (!magic_number_ok) goto out_release;
ProbeCheckMagic ==
    /\ ppc = "check"
    /\ ppc' = IF magic_number_ok = 0 THEN "out_release" ELSE "register"
    /\ UNCHANGED <<dev_device, info_allocated, dev_enabled, regions_held, csr_remapped,
                   info_mem_size, uio_registered, register_called, magic_numbers,
                   magic_number, magic_number_ok, i, released, probe_ret, NotKernel>>

\* if (uio_register_device (&dev->dev, info)) goto out_unmap;
\* pci_set_drvdata (dev, info); return 0;
ProbeRegister ==
    /\ ppc = "register"
    /\ register_called' = TRUE
    /\ \E ok \in BOOLEAN :
         IF ok
         THEN /\ uio_registered' = TRUE /\ ppc' = "done" /\ probe_ret' = "0"
         ELSE /\ ppc' = "out_unmap" /\ UNCHANGED <<uio_registered, probe_ret>>
    /\ UNCHANGED <<dev_device, info_allocated, dev_enabled, regions_held, csr_remapped,
                   info_mem_size, magic_numbers, magic_number, magic_number_ok, i,
                   released, NotKernel>>

\* out_unmap: iounmap(info->mem[0].internal_addr);
ProbeOutUnmap ==
    /\ ppc = "out_unmap"
    /\ csr_remapped' = FALSE
    /\ released' = Append(released, "iounmap")
    /\ ppc' = "out_release"
    /\ UNCHANGED <<dev_device, info_allocated, dev_enabled, regions_held, info_mem_size,
                   uio_registered, register_called, magic_numbers, magic_number,
                   magic_number_ok, i, probe_ret, NotKernel>>

\* out_release: pci_release_regions (dev);
ProbeOutRelease ==
    /\ ppc = "out_release"
    /\ regions_held' = FALSE
    /\ released' = Append(released, "pci_release_regions")
    /\ ppc' = "out_disable"
    /\ UNCHANGED <<dev_device, info_allocated, dev_enabled, csr_remapped, info_mem_size,
                   uio_registered, register_called, magic_numbers, magic_number,
                   magic_number_ok, i, probe_ret, NotKernel>>

\* out_disable: pci_disable_device (dev);
ProbeOutDisable ==
    /\ ppc = "out_disable"
    /\ dev_enabled' = FALSE
    /\ released' = Append(released, "pci_disable_device")
    /\ ppc' = "out_free"
    /\ UNCHANGED <<dev_device, info_allocated, regions_held, csr_remapped, info_mem_size,
                   uio_registered, register_called, magic_numbers, magic_number,
                   magic_number_ok, i, probe_ret, NotKernel>>

\* out_free: kfree (info); return -ENODEV;
ProbeOutFree ==
    /\ ppc = "out_free"
    /\ info_allocated' = FALSE
    /\ released' = Append(released, "kfree")
    /\ probe_ret' = "ENODEV"
    /\ ppc' = "done"
    /\ UNCHANGED <<dev_device, dev_enabled, regions_held, csr_remapped, info_mem_size,
                   uio_registered, register_called, magic_numbers, magic_number,
                   magic_number_ok, i, NotKernel>>

\* nvram_uio_pci_remove, which the PCI core calls only after a probe returned 0
ProbeRemove ==
    /\ ppc = "done" /\ probe_ret = "0"
    /\ uio_registered' = FALSE
    /\ regions_held' = FALSE
    /\ dev_enabled' = FALSE
    /\ csr_remapped' = FALSE
    /\ info_allocated' = FALSE
    /\ ppc' = "removed"
    /\ UNCHANGED <<dev_device, info_mem_size, register_called, magic_numbers,
                   magic_number, magic_number_ok, i, released, probe_ret, NotKernel>>

NextProbe ==
    \/ ProbeKzalloc \/ ProbeEnable \/ ProbeDmaMask \/ ProbeRequestRegions
    \/ ProbeIoremap \/ ProbeSwitch \/ ProbeReadMagic \/ ProbeScan \/ ProbeCheckMagic
    \/ ProbeRegister \/ ProbeOutUnmap \/ ProbeOutRelease \/ ProbeOutDisable
    \/ ProbeOutFree \/ ProbeRemove

SpecProbe == InitProbe /\ [][NextProbe]_vars

\* the candidate entries that precede the sentinel, per variant id
AcceptedMagic(device) ==
    CASE device = \h5415 -> {\h59}
      [] device = \h5425 -> {\h5C, \h5E}
      [] device = \h6155 -> {\h99}
      [] OTHER -> {}

(***************************************************************************)
(* C1: the probe reaches uio_register_device only if the byte of the magic *)
(* register is one of the entries before the sentinel 0x100 in the table   *)
(* of the device's variant id.  For every other byte, and for every byte   *)
(* of an unrecognised id, the scan ends on the sentinel without accepting, *)
(* the probe returns an error and the device is never registered.          *)
(***************************************************************************)
C1_MagicGate ==
    /\ register_called => regs[MEMCTRLSTATUS_MAGIC] \in AcceptedMagic(dev_device)
    /\ (ppc = "check" /\ regs[MEMCTRLSTATUS_MAGIC] \notin AcceptedMagic(dev_device))
         => magic_number_ok = 0 /\ magic_numbers[i] = MagicSentinel
    /\ (ppc = "check" /\ regs[MEMCTRLSTATUS_MAGIC] \in AcceptedMagic(dev_device))
         => magic_number_ok = 1
    /\ (ppc = "done" /\ regs[MEMCTRLSTATUS_MAGIC] \notin AcceptedMagic(dev_device))
         => probe_ret # "0" /\ ~uio_registered

\* the second candidate of variant 0x5425 was accepted and the device registered
C1_Witness ==
    /\ ppc = "done" /\ probe_ret = "0" /\ uio_registered
    /\ dev_device = \h5425 /\ regs[MEMCTRLSTATUS_MAGIC] = \h5E /\ i = 1

\* 0x5D is rejected for variant 0x5425: the scan passed both candidates
C1_WitnessReject ==
    /\ ppc = "done" /\ probe_ret = "ENODEV" /\ ~register_called
    /\ dev_device = \h5425 /\ magic_number = \h5D /\ i = 2

(***************************************************************************)
(* C10: every failing path of the probe releases every resource acquired   *)
(* before the failure, in reverse order of acquisition; after a failed     *)
(* probe no resource remains held.                                         *)
(***************************************************************************)
C10_FailedProbeHoldsNothing ==
    (ppc = "done" /\ probe_ret # "0")
        => /\ ~csr_remapped /\ ~regions_held /\ ~dev_enabled /\ ~info_allocated
           /\ \A m, n \in DOMAIN released :
                m < n => <<released[m], released[n]>> \in
                    {<<"iounmap", "pci_release_regions">>, <<"iounmap", "pci_disable_device">>,
                     <<"iounmap", "kfree">>, <<"pci_release_regions", "pci_disable_device">>,
                     <<"pci_release_regions", "kfree">>, <<"pci_disable_device", "kfree">>}

\* the two leaks, one at a time
C10_DmaMaskPath ==
    (ppc = "done" /\ probe_ret = "ENOMEM") => ~dev_enabled /\ ~info_allocated

C10_MagicRejectPath ==
    (ppc = "done" /\ probe_ret = "ENODEV") => ~csr_remapped

(***************************************************************************)
(* Spec: main() of userspace_access_test.c, one action per library or      *)
(* system call.  The environment: the entries of /sys/class/uio and their  *)
(* name files, the attribute files of map0, the outcome of opendir, open,  *)
(* mmap and close, and the address that mmap returns.                      *)
(***************************************************************************)
NameBufferSize == 80
MaxEntries == 2
NL == "\n"
\* fopen failed; fgets returned NULL
NoFile == <<"ENOENT">>
NullLine == <<"NULL">>
MAP_FAILED == -1
DRIVER_NAME == <<"n", "v", "r", "a", "m", "_", "u", "i", "o">>
EXIT_SUCCESS == "0"
EXIT_FAILURE == "1"

\* the name attribute of a UIO device is one line of text; an empty file and
\* a file without the newline are what fgets can also meet
NameTexts ==
    {DRIVER_NAME \o <<NL>>, DRIVER_NAME, DRIVER_NAME \o <<"x", NL>>,
     <<"o", "t", "h", "e", "r", NL>>, <<>>}

\* a directory entry: its d_type and its name file (NoFile: fopen fails);
\* an entry that is a regular file has no name file under it
DirEntries ==
    {[d_type |-> "DT_REG", name |-> NoFile]}
        \cup [d_type : {"DT_DIR", "DT_LNK"}, name : NameTexts \cup {NoFile}]

Registries == UNION {[1 .. n -> DirEntries] : n \in 0 .. MaxEntries}

\* fgets (buf, size, file) at the start of a file: NULL at end of file, else
\* the characters up to and including the first newline, size - 1 at most
RECURSIVE FgetsN(_, _)
FgetsN(text, room) ==
    IF text = <<>> \/ room = 0 THEN <<>>
    ELSE IF Head(text) = NL THEN <<NL>>
    ELSE <<Head(text)>> \o FgetsN(Tail(text), room - 1)

Fgets(text, size) == IF text = <<>> THEN NullLine ELSE FgetsN(text, size - 1)

\* a comparison of the line as fgets returned it, newline and all
NameLineMatchesUntrimmed(line) == line = DRIVER_NAME

\* lines 80-84: drop one trailing newline, then strcmp with DRIVER_NAME
NameLineMatches(line) ==
    LET trimmed == IF line[Len(line)] = NL THEN SubSeq(line, 1, Len(line) - 1) ELSE line
    IN  trimmed = DRIVER_NAME

\* the value of found_nvram_uio_device after the body of the while loop
EntryFound(entry, found) ==
    IF entry.d_type \in {"DT_DIR", "DT_LNK"} /\ entry.name # NoFile
    THEN LET uio_driver_name == Fgets(entry.name, NameBufferSize)
         IN  IF uio_driver_name = NullLine THEN FALSE ELSE NameLineMatches(uio_driver_name)
    ELSE found

\* the text of a sysfs attribute printed with "0x%llx\n"
HexChars == <<"0", "1", "2", "3", "4", "5", "6", "7", "8", "9", "a", "b", "c", "d", "e", "f">>

RECURSIVE HexDigits(_)
HexDigits(n) ==
    IF n < 16 THEN <<HexChars[n + 1]>>
    ELSE HexDigits(n \div 16) \o <<HexChars[(n % 16) + 1]>>

SysfsHex(n) == <<"0", "x">> \o HexDigits(n) \o <<NL>>

HexValue(c) == CHOOSE d \in 0 .. 15 : HexChars[d + 1] = c

IsHexChar(c) == \E d \in 0 .. 15 : HexChars[d + 1] = c

\* the hexadecimal digits at the start of text, as a number; -1 when none
RECURSIVE ScanHex(_, _, _)
ScanHex(text, acc, any) ==
    IF text # <<>> /\ IsHexChar(Head(text))
    THEN ScanHex(Tail(text), acc * 16 + HexValue(Head(text)), TRUE)
    ELSE IF any THEN acc ELSE -1

\* fscanf (file, "0x%x", &param_value) == 1 ? the value : -1
Fscanf0x(text) ==
    IF Len(text) >= 2 /\ text[1] = "0" /\ text[2] = "x"
    THEN ScanHex(SubSeq(text, 3, Len(text)), 0, FALSE)
    ELSE -1

\* read_uio_mapping_param on an attribute file: -1 when it exits
ReadUioMappingParam(file) == IF file = NoFile THEN -1 ELSE Fscanf0x(file)

\* what an attribute file of the value v can be: right, missing, not "0x..."
ParamFiles(v) == {SysfsHex(v), NoFile, HexDigits(v) \o <<NL>>}

\* the register images the program may find
RegisterImages ==
    {(MEMCTRLSTATUS_MAGIC :> \h5C) @@ (MEMCTRLSTATUS_BATTERY :> 1) @@ (MEMCTRLSTATUS_MEMORY :> 2)
        @@ (MEMCTRLCMD_LEDCTRL :> \hA5) @@ (MEMCTRLCMD_ERRCTRL :> 3),
     (MEMCTRLSTATUS_MAGIC :> \h5E) @@ (MEMCTRLSTATUS_BATTERY :> 4) @@ (MEMCTRLSTATUS_MEMORY :> 5)
        @@ (MEMCTRLCMD_LEDCTRL :> \h5A) @@ (MEMCTRLCMD_ERRCTRL :> 6)}

\* where the registers start within their page; the window the driver registers
CsrOffsets == {0, \h100}
CsrSizes == {PAGE_SIZE, 2 * PAGE_SIZE}
MmapAddresses == {\h10000, \h24000}
DeviceFd == 3

PageOf(addr) == (addr \div PAGE_SIZE) * PAGE_SIZE
PagesOf(addr, length) ==
    {pg \in {PageOf(addr) + k * PAGE_SIZE : k \in 0 .. (length \div PAGE_SIZE)} :
        pg < addr + length}

\* a byte access at addr does not fault
AddrMapped(addr) == PageOf(addr) \in mapped_pages

\* the byte of the window, counted from its first byte, that addr is
WindowOffset(addr) == addr - mmap_ret

\* the byte of the device at an offset of the window: the registers start
\* hw_offset bytes into it, and nothing else answers (reads as 0xFF)
WindowByte(offset) ==
    IF offset - hw_offset \in CsrRegisters THEN regs[offset - hw_offset] ELSE \hFF

ReadByte(addr) == WindowByte(WindowOffset(addr))

LedSequence == <<LED_ON, LED_FLASH_7_0, LED_FLASH_3_5, LED_OFF>>

Init ==
    /\ regs \in RegisterImages
    /\ registry \in Registries
    /\ hw_offset \in CsrOffsets
    /\ hw_size \in CsrSizes
    /\ pc = "find_uio_device"
    /\ dir_pos = 0 /\ scanned = 0 /\ found_nvram_uio_device = FALSE
    /\ context = ZeroContext /\ fd_open = FALSE /\ mmap_ret = 0
    /\ mapped_pages = {} /\ printed = <<>> /\ led_step = 0 /\ calls = <<>>
    /\ failed_step = "none" /\ exit_status = "running"
    /\ led_calls = <<>>
    /\ RaceIdle
    /\ KernelIdle

NotUser == <<led_calls, racevars, kvars>>

\* exit (EXIT_FAILURE) out of the call named step
ExitFailure(step) ==
    /\ pc' = "exit"
    /\ exit_status' = EXIT_FAILURE
    /\ failed_step' = step

\* find_uio_device up to the first readdir: memset, opendir, readdir
FindOpendir ==
    /\ pc = "find_uio_device"
    /\ context' = ZeroContext
    /\ \E ok \in BOOLEAN :
         IF ok
         THEN /\ dir_pos' = 1
              /\ pc' = "while"
              /\ UNCHANGED <<failed_step, exit_status>>
         ELSE /\ ExitFailure("opendir")
              /\ UNCHANGED dir_pos
    /\ UNCHANGED <<regs, registry, hw_offset, hw_size, scanned, found_nvram_uio_device,
                   fd_open, mmap_ret, mapped_pages, printed, led_step, calls, NotUser>>

\* one test of the while condition, and either one pass of its body with the
\* readdir that ends it, or closedir and the test of found_nvram_uio_device
FindWhile ==
    /\ pc = "while"
    /\ IF dir_pos <= Len(registry) /\ ~found_nvram_uio_device
       THEN LET entry == registry[dir_pos]
                found == EntryFound(entry, found_nvram_uio_device)
            IN  /\ found_nvram_uio_device' = found
                /\ context' = IF found THEN [context EXCEPT !.device_name = dir_pos]
                                       ELSE context
                /\ scanned' = scanned + 1
                /\ dir_pos' = dir_pos + 1
                /\ UNCHANGED <<pc, failed_step, exit_status>>
       ELSE /\ IF found_nvram_uio_device
               THEN /\ pc' = "get_uio_device_parameters"
                    /\ UNCHANGED <<failed_step, exit_status>>
               ELSE ExitFailure("find_uio_device")
            /\ UNCHANGED <<found_nvram_uio_device, context, scanned, dir_pos>>
    /\ UNCHANGED <<regs, registry, hw_offset, hw_size, fd_open, mmap_ret, mapped_pages,
                   printed, led_step, calls, NotUser>>


\* get_uio_device_parameters: the two calls of read_uio_mapping_param
GetUioDeviceParameters ==
    /\ pc = "get_uio_device_parameters"
    /\ \E offset_file \in ParamFiles(hw_offset), size_file \in ParamFiles(hw_size) :
         LET offset == ReadUioMappingParam(offset_file)
             size == ReadUioMappingParam(size_file)
         IN  IF offset = -1
             THEN /\ ExitFailure("read_offset")
                  /\ UNCHANGED context
             ELSE IF size = -1
             THEN /\ ExitFailure("read_size")
                  /\ context' = [context EXCEPT !.csr_mmap_offset = offset]
             ELSE /\ context' = [context EXCEPT !.csr_mmap_offset = offset,
                                                !.csr_mmap_size = size]
                  /\ pc' = "open"
                  /\ UNCHANGED <<failed_step, exit_status>>
    /\ UNCHANGED <<regs, registry, hw_offset, hw_size, dir_pos, scanned,
                   found_nvram_uio_device, fd_open, mmap_ret, mapped_pages, printed,
                   led_step, calls, NotUser>>

\* open_uio_device, lines 154-161: open (device_pathname, O_RDWR)
OpenDevice ==
    /\ pc = "open"
    /\ \E ok \in BOOLEAN :
         IF ok
         THEN /\ context' = [context EXCEPT !.device_fd = DeviceFd]
              /\ fd_open' = TRUE
              /\ calls' = Append(calls, <<"open", "ok">>)
              /\ pc' = "mmap"
              /\ UNCHANGED <<failed_step, exit_status>>
         ELSE /\ context' = [context EXCEPT !.device_fd = -1]
              /\ calls' = Append(calls, <<"open", "failed">>)
              /\ ExitFailure("open")
              /\ UNCHANGED fd_open
    /\ UNCHANGED <<regs, registry, hw_offset, hw_size, dir_pos, scanned,
                   found_nvram_uio_device, mmap_ret, mapped_pages, printed, led_step,
                   NotUser>>

\* a csr that forgets the published offset
CsrBaseNoOffset(mapped, offset) == mapped

\* context->csr += context->csr_mmap_offset;
CsrBase(mapped, offset) == mapped + offset

\* open_uio_device, lines 163-177: mmap, the CSR base and the five accessors
MapDevice ==
    /\ pc = "mmap"
    /\ \E ret \in MmapAddresses \cup {MAP_FAILED} :
         /\ mmap_ret' = ret
         /\ IF ret = MAP_FAILED
            THEN /\ context' = [context EXCEPT !.csr = MAP_FAILED]
                 /\ calls' = Append(calls, <<"mmap", "failed">>)
                 /\ ExitFailure("mmap")
                 /\ UNCHANGED mapped_pages
            ELSE LET csr == CsrBase(ret, context.csr_mmap_offset) IN
                 /\ mapped_pages' = PagesOf(ret, context.csr_mmap_size)
                 /\ calls' = Append(calls, <<"mmap", "ok">>)
                 /\ context' = [context EXCEPT
                        !.csr = csr,
                        !.memctrlstatus_magic = csr + MEMCTRLSTATUS_MAGIC,
                        !.memctrlstatus_memory = csr + MEMCTRLSTATUS_MEMORY,
                        !.memctrlstatus_battery = csr + MEMCTRLSTATUS_BATTERY,
                        !.memctrlcmd_ledctrl = csr + MEMCTRLCMD_LEDCTRL,
                        !.memctrlcmd_errctrl = csr + MEMCTRLCMD_ERRCTRL]
                 /\ pc' = "print"
                 /\ UNCHANGED <<failed_step, exit_status>>
    /\ UNCHANGED <<regs, registry, hw_offset, hw_size, dir_pos, scanned,
                   found_nvram_uio_device, fd_open, printed, led_step, NotUser>>

\* the five printf of main, each a read through an accessor
PrintRegisters ==
    /\ pc = "print"
    /\ printed' = <<ReadByte(context.memctrlstatus_magic),
                    ReadByte(context.memctrlstatus_memory),
                    ReadByte(context.memctrlstatus_battery),
                    ReadByte(context.memctrlcmd_ledctrl),
                    ReadByte(context.memctrlcmd_errctrl)>>
    /\ pc' = "set_led"
    /\ UNCHANGED <<regs, registry, hw_offset, hw_size, dir_pos, scanned,
                   found_nvram_uio_device, context, fd_open, mmap_ret, mapped_pages,
                   led_step, calls, failed_step, exit_status, NotUser>>

\* the next of main's four set_led (&context, LED_FAULT, ...): the read of the
\* register, the change of led, the store
MainSetLed ==
    /\ pc = "set_led"
    /\ LET led == ReadByte(context.memctrlcmd_ledctrl)
           stored == SetLedValue(led, LED_FAULT, LedSequence[led_step + 1])
           target == WindowOffset(context.memctrlcmd_ledctrl) - hw_offset
       IN  regs' = IF target \in CsrRegisters THEN [regs EXCEPT ![target] = stored]
                   ELSE regs
    /\ led_step' = led_step + 1
    /\ pc' = IF led_step + 1 = Len(LedSequence) THEN "munmap" ELSE "set_led"
    /\ UNCHANGED <<registry, hw_offset, hw_size, dir_pos, scanned,
                   found_nvram_uio_device, context, fd_open, mmap_ret, mapped_pages,
                   printed, calls, failed_step, exit_status, NotUser>>

\* munmap (addr, length): EINVAL when addr is not a multiple of the page size;
\* otherwise the pages of the range that are mapped are unmapped
MunmapFails(addr, length) == addr % PAGE_SIZE # 0

\* close_uio_device, lines 188-194: munmap ((void *) context->csr, csr_mmap_size)
UnmapDevice ==
    /\ pc = "munmap"
    /\ LET addr == context.csr
           length == context.csr_mmap_size
       IN  IF MunmapFails(addr, length)
           THEN /\ calls' = Append(calls, <<"munmap", "failed", addr, length>>)
                /\ ExitFailure("munmap")
                /\ UNCHANGED <<mapped_pages, context>>
           ELSE /\ calls' = Append(calls, <<"munmap", "ok", addr, length>>)
                /\ mapped_pages' = mapped_pages \ PagesOf(addr, length)
                /\ context' = [context EXCEPT !.csr = 0]
                /\ pc' = "close"
                /\ UNCHANGED <<failed_step, exit_status>>
    /\ UNCHANGED <<regs, registry, hw_offset, hw_size, dir_pos, scanned,
                   found_nvram_uio_device, fd_open, mmap_ret, printed, led_step, NotUser>>

\* close_uio_device, line 196, and the return of main: close (context->device_fd),
\* whose result is not looked at; return EXIT_SUCCESS
CloseDevice ==
    /\ pc = "close"
    /\ fd_open' = FALSE
    /\ \E ok \in BOOLEAN :
         /\ calls' = Append(calls, <<"close", IF ok THEN "ok" ELSE "failed">>)
         /\ failed_step' = IF ok THEN failed_step ELSE "close"
    /\ pc' = "exit"
    /\ exit_status' = EXIT_SUCCESS
    /\ UNCHANGED <<regs, registry, hw_offset, hw_size, dir_pos, scanned,
                   found_nvram_uio_device, context, mmap_ret, mapped_pages, printed,
                   led_step, NotUser>>

Next ==
    \/ FindOpendir \/ FindWhile \/ GetUioDeviceParameters \/ OpenDevice \/ MapDevice
    \/ PrintRegisters \/ MainSetLed \/ UnmapDevice \/ CloseDevice

Spec == Init /\ [][Next]_vars


\* the identity attribute of an entry, its trailing newline trimmed
TrimmedIdentity(text) ==
    IF text # <<>> /\ text[Len(text)] = NL THEN SubSeq(text, 1, Len(text) - 1) ELSE text

\* entry k has an identity attribute and it names this driver
Identifies(k) ==
    /\ registry[k].name # NoFile
    /\ TrimmedIdentity(registry[k].name) = DRIVER_NAME

SomeIdentifies == \E k \in DOMAIN registry : Identifies(k)

FirstIdentifying ==
    CHOOSE k \in DOMAIN registry : Identifies(k) /\ \A j \in 1 .. k - 1 : ~Identifies(j)

FindReturned == pc \notin {"find_uio_device", "while"}

(***************************************************************************)
(* C2: for all sets of registry entries, find_uio_device returns an entry  *)
(* iff some entry's identity attribute (trailing newline trimmed) equals   *)
(* the driver identity string; when several match, the first enumerated is *)
(* recorded and the scan stops there; when none matches, or the registry   *)
(* root cannot be opened, the process terminates with non-zero status.     *)
(***************************************************************************)
C2_Locator ==
    /\ (FindReturned /\ failed_step \notin {"opendir", "find_uio_device"})
         => /\ SomeIdentifies
            /\ found_nvram_uio_device
            /\ context.device_name = FirstIdentifying
            /\ scanned = FirstIdentifying
    /\ (FindReturned /\ failed_step # "opendir" /\ SomeIdentifies)
         => failed_step # "find_uio_device"
    /\ failed_step \in {"opendir", "find_uio_device"}
         => pc = "exit" /\ exit_status = EXIT_FAILURE

\* two entries name the driver, one without the newline; the first is recorded
C2_Witness ==
    /\ pc = "get_uio_device_parameters"
    /\ Len(registry) = 2
    /\ registry[1].name = DRIVER_NAME \o <<NL>> /\ registry[2].name = DRIVER_NAME
    /\ context.device_name = 1 /\ scanned = 1

\* main is between the return of open_uio_device and the call of close_uio_device
OpenHeld == pc \in {"print", "set_led", "munmap"}

Accessors ==
    (MEMCTRLSTATUS_MAGIC :> context.memctrlstatus_magic)
        @@ (MEMCTRLSTATUS_MEMORY :> context.memctrlstatus_memory)
        @@ (MEMCTRLSTATUS_BATTERY :> context.memctrlstatus_battery)
        @@ (MEMCTRLCMD_LEDCTRL :> context.memctrlcmd_ledctrl)
        @@ (MEMCTRLCMD_ERRCTRL :> context.memctrlcmd_errctrl)

(***************************************************************************)
(* C7: in every state between a successful open_uio_device and             *)
(* close_uio_device, the CSR base of the context is the address that mmap  *)
(* returned plus the published offset, each of the five accessors is the   *)
(* CSR base plus its register offset, and a read through an accessor       *)
(* yields the byte at the published offset plus the register offset of the *)
(* mapped window.                                                          *)
(***************************************************************************)
C7_CsrBase ==
    OpenHeld =>
        /\ context.csr = mmap_ret + context.csr_mmap_offset
        /\ \A r \in CsrRegisters :
            /\ Accessors[r] = context.csr + r
            /\ ReadByte(Accessors[r]) = WindowByte(context.csr_mmap_offset + r)
            /\ AddrMapped(Accessors[r])

\* the registers start 0x100 into the page and were read through the accessors
C7_Witness ==
    /\ pc = "set_led"
    /\ hw_offset = \h100 /\ context.csr_mmap_offset = \h100
    /\ context.csr = mmap_ret + \h100
    /\ printed = <<regs[MEMCTRLSTATUS_MAGIC], regs[MEMCTRLSTATUS_MEMORY],
                   regs[MEMCTRLSTATUS_BATTERY], \hA5, regs[MEMCTRLCMD_ERRCTRL]>>

OpenSucceeded == \E n \in DOMAIN calls : calls[n] = <<"open", "ok">>
MmapSucceeded == \E n \in DOMAIN calls : calls[n] = <<"mmap", "ok">>

(***************************************************************************)
(* C5: on every path that terminates the process after the device file was *)
(* opened (mmap failure, munmap failure, normal completion) the mapping,   *)
(* if it was created, is unmapped and then the file handle is closed,      *)
(* unmap before close.                                                     *)
(***************************************************************************)
C5_ReleasedOnExit ==
    (pc = "exit" /\ OpenSucceeded)
        => /\ ~fd_open
           /\ mapped_pages = {}
           /\ \E n \in DOMAIN calls :
                /\ calls[n][1] = "close"
                /\ MmapSucceeded =>
                     \E m \in 1 .. n - 1 : calls[m][1] = "munmap" /\ calls[m][2] = "ok"

(***************************************************************************)
(* C6: a failure of any step of the user-space flow terminates the process *)
(* with non-zero status at once, before any later step runs; the process   *)
(* terminates with zero status only when every step succeeded.             *)
(***************************************************************************)
C6_FailFast ==
    /\ failed_step # "none" => pc = "exit" /\ exit_status = EXIT_FAILURE
    /\ exit_status = EXIT_SUCCESS =>
         /\ failed_step = "none"
         /\ \A n \in DOMAIN calls : calls[n][2] = "ok"

(***************************************************************************)
(* C9: close_uio_device unmaps exactly the region that open_uio_device     *)
(* mapped: for every published offset, zero or not, the address and length *)
(* passed to munmap are the address mmap returned and the length mapped,   *)
(* and the teardown after a successful open succeeds.                      *)
(***************************************************************************)
C9_UnmapsWhatWasMapped ==
    \A n \in DOMAIN calls :
        calls[n][1] = "munmap"
            => /\ calls[n][3] = mmap_ret
               /\ calls[n][4] = context.csr_mmap_size
               /\ calls[n][2] = "ok"

====
